---- MODULE Spec2Model ----
(***************************************************************************)
(* The elimination engine of gauss.py: the recursive generator gauss() as  *)
(* a state machine over an explicit call stack, the working matrix as a    *)
(* Python list of row objects on a heap, and the frames it yields.         *)
(***************************************************************************)
EXTENDS Integers, Sequences, FiniteSets, TLC

VARIABLES input, heap, a, stack, frames, ops, run, raised,
          skip_unchanged, last, printed, consumed

\* the state of main(): the --skip-unchanged flag, the variable last, the
\* calls of print_matrix so far and the number of frames the loop has taken
mainVars == <<skip_unchanged, last, printed, consumed>>

vars == <<input, heap, a, stack, frames, ops, run, raised, mainVars>>

(* ---------------- bounds of the model ---------------- *)
MaxM == 3
MaxN == 3
MaxCells == 6
MaxVal == 1
MaxRuns == 2
MaxDepth == MaxM + MaxN + 2
MaxCand == 2

(* ---------------- exact rationals (fractions.Fraction) ---------------- *)
\* Python evaluates the operands of a call once, before the call: an operand
\* is bound as the element of a singleton set and Value takes the result out
Value(S) == CHOOSE x \in S : TRUE

Abs(x) == IF x < 0 THEN 0 - x ELSE x

RECURSIVE GCD(_, _)
GCD(x, y) == IF y = 0 THEN x ELSE Value({GCD(y, r) : r \in {x % y}})

Lowest(n, d) ==
    LET g == GCD(Abs(n), Abs(d))
        s == IF d < 0 THEN 0 - 1 ELSE 1
    IN  <<(s * n) \div g, (s * d) \div g>>

\* Fraction(n, d) in lowest terms with a positive denominator
Frac(n, d) == Value({Lowest(p, q) : p \in {n}, q \in {d}})

Zero == <<0, 1>>
One == <<1, 1>>

\* the value standing for a raised ZeroDivisionError
ZeroDivisionError == <<0, 0>>

IsZero(x) == x[1] = 0

FracMul(x, y) ==
    Value({Frac(p[1] * q[1], p[2] * q[2]) : p \in {x}, q \in {y}})

FracAdd(x, y) ==
    Value({Frac(p[1] * q[2] + q[1] * p[2], p[2] * q[2]) : p \in {x}, q \in {y}})

FracSub(x, y) ==
    Value({Frac(p[1] * q[2] - q[1] * p[2], p[2] * q[2]) : p \in {x}, q \in {y}})

\* coeff / divisor: raises ZeroDivisionError when the divisor is zero
FracDiv(x, y) ==
    IF y[1] = 0
    THEN ZeroDivisionError
    ELSE Value({Frac(p[1] * q[2], p[2] * q[1]) : p \in {x}, q \in {y}})

(* ---------------- the matrix ---------------- *)
\* the contents seen through a list of row references
Resolve(h, ids) == [k \in 1..Len(ids) |-> h[ids[k]]]

Contents == Resolve(heap, a)

m == Len(a)
n == Len(heap[a[1]])

\* a[r][c] with the 0-based indices of the code
Cell(r, c) == heap[a[r + 1]][c + 1]

FracVals == {<<v, 1>> : v \in (0 - 1)..MaxVal}

Shapes == {s \in (1..MaxM) \X (1..MaxN) : s[1] * s[2] <= MaxCells}

Unique == <<<<One, One, <<3, 1>>>>, <<<<2, 1>>, <<0 - 1, 1>>, Zero>>>>
SwapFirst == <<<<Zero, One, <<5, 1>>>>, <<One, One, <<8, 1>>>>>>
ZeroColumn == <<<<Zero, One, <<5, 1>>>>, <<Zero, <<2, 1>>, <<10, 1>>>>>>

Scenarios == {Unique, SwapFirst, ZeroColumn}

InputMatrices ==
    UNION {[1..s[1] -> [1..s[2] -> FracVals]] : s \in Shapes} \cup Scenarios

(* ---------------- frames ---------------- *)
\* list(a): a new outer list holding the same row objects
CopyFrame(ids, h, none, exp) ==
    [kind |-> "copy", rows |-> ids, snap |-> Resolve(h, ids),
     expNone |-> none, exp |-> exp]

\* the working list a itself, handed out by the except branch
AliasFrame(ids, h) ==
    [kind |-> "alias", rows |-> <<>>, snap |-> Resolve(h, ids),
     expNone |-> FALSE, exp |-> {}]

SentinelFrame ==
    [kind |-> "none", rows |-> <<>>, snap |-> <<>>,
     expNone |-> FALSE, exp |-> {}]

\* the matrix a consumer sees now through a frame it kept
View(f) == IF f.kind = "copy" THEN Resolve(heap, f.rows) ELSE Contents

exp_swap(i, r) == [row |-> i, op |-> "swap", other |-> r, val |-> Zero]
exp_divide(i, d) == [row |-> i, op |-> "divide", other |-> i, val |-> d]
exp_minus(k, f, i) == [row |-> k, op |-> "minus", other |-> i, val |-> f]

(* ---------------- the call stack ---------------- *)
Top == stack[Len(stack)]
Pop == SubSeq(stack, 1, Len(stack) - 1)
Goto(pc) == [stack EXCEPT ![Len(stack)].pc = pc]
Call(i, j) == [i |-> i, j |-> j, pc |-> "start"]
Running == stack # <<>>
Log(op) == Append(ops, [op |-> op, i |-> Top.i, j |-> Top.j])

IsStartRowOnly(i, j) == i = 0

IsStart(i, j) == i = 0 /\ j = 0

AtBoundary(i, j) == i = m \/ j = n

\* last = None
NoMatrix == [kind |-> "none", rows |-> <<>>]

\* gauss(matrix) is called on a checked matrix; flags are the values of
\* --skip-unchanged
InitWith(flags) ==
    /\ input \in InputMatrices
    /\ heap = input
    /\ a = [k \in 1..Len(input) |-> k]
    /\ stack = <<Call(0, 0)>>
    /\ frames = <<>>
    /\ ops = <<>>
    /\ run = 1
    /\ raised = "none"
    /\ skip_unchanged \in flags
    /\ last = NoMatrix
    /\ printed = <<>>
    /\ consumed = 0

Init == InitWith({FALSE})

\* lines 92-96
Begin ==
    /\ Running
    /\ Top.pc = "start"
    /\ frames' = IF IsStart(Top.i, Top.j)
                 THEN Append(frames, CopyFrame(a, heap, TRUE, {}))
                 ELSE frames
    /\ stack' = Goto("bound")
    /\ UNCHANGED <<input, heap, a, ops, run, raised, mainVars>>

\* lines 98-100
Sentinel ==
    /\ Running
    /\ Top.pc = "bound"
    /\ AtBoundary(Top.i, Top.j)
    /\ frames' = Append(frames, SentinelFrame)
    /\ stack' = Pop
    /\ UNCHANGED <<input, heap, a, ops, run, raised, mainVars>>

(* ---------------- zero-pivot handling, lines 102-110 ---------------- *)
NonZeroBelow(i, j) == {r \in (i + 1)..(m - 1) : ~IsZero(Cell(r, j))}

PivotRowLast(i, j) ==
    CHOOSE r \in NonZeroBelow(i, j) : \A q \in NonZeroBelow(i, j) : q <= r

\* the first r of range(i + 1, m) with a[r][j] != 0
PivotRow(i, j) ==
    CHOOSE r \in NonZeroBelow(i, j) : \A q \in NonZeroBelow(i, j) : r <= q

SwapRowsOverwrite(ids, i, r) == [ids EXCEPT ![i + 1] = ids[r + 1]]

\* a[r], a[i] = a[i], a[r]
SwapRows(ids, i, r) ==
    [ids EXCEPT ![i + 1] = ids[r + 1], ![r + 1] = ids[i + 1]]

AtPivotTest ==
    /\ Running
    /\ Top.pc = "bound"
    /\ ~AtBoundary(Top.i, Top.j)

\* lines 102-107
Swap ==
    /\ AtPivotTest
    /\ IsZero(Cell(Top.i, Top.j))
    /\ NonZeroBelow(Top.i, Top.j) # {}
    /\ LET i == Top.i
           r == PivotRow(Top.i, Top.j)
       IN  /\ a' = SwapRows(a, i, r)
           /\ frames' = Append(frames,
                  CopyFrame(a', heap, FALSE, {exp_swap(i, r)}))
    /\ stack' = Goto("norm")
    /\ ops' = Log("swap")
    /\ UNCHANGED <<input, heap, run, raised, mainVars>>

SkipTargetSameColumn(i, j) == <<i, j>>

SkipTargetNextRow(i, j) == <<i + 1, j + 1>>

\* the arguments of the recursive call of line 109
SkipTarget(i, j) == <<i, j + 1>>

\* lines 102-103 and 108-110: the for loop ends without break; the level
\* resumes after the recursion at line 112
SkipColumn ==
    /\ AtPivotTest
    /\ IsZero(Cell(Top.i, Top.j))
    /\ NonZeroBelow(Top.i, Top.j) = {}
    /\ Len(stack) < MaxDepth
    /\ LET t == SkipTarget(Top.i, Top.j)
       IN  stack' = Append(Goto("norm"), Call(t[1], t[2]))
    /\ ops' = Log("skip")
    /\ UNCHANGED <<input, heap, a, frames, run, raised, mainVars>>

(* ---------------- normalization, lines 112-119 ---------------- *)
StoreRowInPlace(h, ids, idx, row) ==
    [heap |-> [h EXCEPT ![ids[idx]] = row], a |-> ids]

\* a[idx] = [...]: a new row object replaces the reference in the list
StoreRow(h, ids, idx, row) ==
    [heap |-> Append(h, row), a |-> [ids EXCEPT ![idx] = Len(h) + 1]]

DivideRowStale(row, divisor) ==
    [c \in 1..Len(row) |->
        IF \E k \in 1..(c - 1) : row[k] = divisor
        THEN FracDiv(row[c], FracDiv(divisor, divisor))
        ELSE FracDiv(row[c], divisor)]

\* [coeff / divisor for coeff in a[i]]
DivideRow(row, divisor) == [c \in 1..Len(row) |-> FracDiv(row[c], divisor)]

Raises(row) == \E c \in 1..Len(row) : row[c] = ZeroDivisionError

CaughtOther(exc) == exc = "ValueError"

\* except ZeroDivisionError
Caught(exc) == exc = "ZeroDivisionError"

AtTry ==
    /\ Running
    /\ \/ Top.pc = "norm"
       \/ AtPivotTest /\ ~IsZero(Cell(Top.i, Top.j))

\* lines 112-115
Normalize ==
    /\ AtTry
    /\ LET i == Top.i
           divisor == Cell(Top.i, Top.j)
           row == DivideRow(heap[a[i + 1]], divisor)
       IN  /\ ~Raises(row)
           /\ \E st \in {StoreRow(heap, a, i + 1, row)} :
                  /\ heap' = st.heap
                  /\ a' = st.a
                  /\ frames' = Append(frames,
                         CopyFrame(st.a, st.heap, FALSE,
                                   {exp_divide(i, divisor)}))
    /\ stack' = Goto("elim")
    /\ ops' = Log("divide")
    /\ UNCHANGED <<input, run, raised, mainVars>>

ZeroDivisorNoFrame ==
    /\ AtTry
    /\ Raises(DivideRow(heap[a[Top.i + 1]], Cell(Top.i, Top.j)))
    /\ stack' = Pop
    /\ ops' = Log("zero")
    /\ UNCHANGED <<input, heap, a, frames, run, raised, mainVars>>

ZeroDivisorNoReturn ==
    /\ AtTry
    /\ Raises(DivideRow(heap[a[Top.i + 1]], Cell(Top.i, Top.j)))
    /\ frames' = Append(frames, AliasFrame(a, heap))
    /\ stack' = Goto("elim")
    /\ ops' = Log("zero")
    /\ UNCHANGED <<input, heap, a, run, raised, mainVars>>

\* lines 112-114 and 117-119
ZeroDivisor ==
    /\ AtTry
    /\ Raises(DivideRow(heap[a[Top.i + 1]], Cell(Top.i, Top.j)))
    /\ IF Caught("ZeroDivisionError")
       THEN /\ frames' = Append(frames, AliasFrame(a, heap))
            /\ stack' = Pop
            /\ raised' = raised
       ELSE /\ frames' = frames
            /\ stack' = <<>>
            /\ raised' = "ZeroDivisionError"
    /\ ops' = Log("zero")
    /\ UNCHANGED <<input, heap, a, run, mainVars>>

(* ---------------- elimination, lines 121-133 ---------------- *)
RowPlus(rk, factor, ri) ==
    [c \in 1..Len(rk) |-> FracAdd(rk[c], FracMul(factor, ri[c]))]

RowMinusUnscaled(rk, factor, ri) ==
    [c \in 1..Len(rk) |-> FracSub(rk[c], factor)]

\* [coeff_k - factor * coeff_i for (coeff_k, coeff_i) in zip(a[k], a[i])]
RowMinus(rk, factor, ri) ==
    [c \in 1..Len(rk) |-> FracSub(rk[c], FracMul(factor, ri[c]))]

RECURSIVE ElimLoopSkipZero(_, _, _, _, _, _)
ElimLoopSkipZero(h, ids, exp, i, j, k) ==
    IF k >= Len(ids)
    THEN [heap |-> h, a |-> ids, exp |-> exp]
    ELSE LET factor == h[ids[k + 1]][j + 1]
             row == RowMinus(h[ids[k + 1]], factor, h[ids[i + 1]])
         IN  IF IsZero(factor)
             THEN ElimLoopSkipZero(h, ids, exp, i, j, k + 1)
             ELSE Value({ElimLoopSkipZero(st.heap, st.a,
                                          exp \cup {exp_minus(k, factor, i)},
                                          i, j, k + 1) :
                         st \in {StoreRow(h, ids, k + 1, row)}})

\* the loop of lines 122-128 from row k on
RECURSIVE ElimLoop(_, _, _, _, _, _)
ElimLoop(h, ids, exp, i, j, k) ==
    IF k >= Len(ids)
    THEN [heap |-> h, a |-> ids, exp |-> exp]
    ELSE LET factor == h[ids[k + 1]][j + 1]
             row == RowMinus(h[ids[k + 1]], factor, h[ids[i + 1]])
         IN  Value({ElimLoop(st.heap, st.a, exp \cup {exp_minus(k, factor, i)},
                             i, j, k + 1) :
                    st \in {StoreRow(h, ids, k + 1, row)}})

\* lines 121-130
Eliminate ==
    /\ Running
    /\ Top.pc = "elim"
    /\ \E st \in {ElimLoop(heap, a, {}, Top.i, Top.j, Top.i + 1)} :
           /\ heap' = st.heap
           /\ a' = st.a
           /\ frames' = Append(frames,
                  CopyFrame(st.a, st.heap, FALSE, st.exp))
    /\ stack' = Goto("desc")
    /\ ops' = Log("minus")
    /\ UNCHANGED <<input, run, raised, mainVars>>

\* line 132: the recursive call
Descend ==
    /\ Running
    /\ Top.pc = "desc"
    /\ Len(stack) < MaxDepth
    /\ stack' = Append(Goto("ret"), Call(Top.i + 1, Top.j + 1))
    /\ UNCHANGED <<input, heap, a, frames, ops, run, raised, mainVars>>

\* line 133: the recursion is exhausted and the level ends
Return ==
    /\ Running
    /\ Top.pc = "ret"
    /\ stack' = Pop
    /\ UNCHANGED <<input, heap, a, frames, ops, run, raised, mainVars>>

\* gauss() is called again on the matrix the finished run left
Rerun ==
    /\ ~Running
    /\ raised = "none"
    /\ run < MaxRuns
    /\ input' = Contents
    /\ heap' = Contents
    /\ a' = [k \in 1..Len(a) |-> k]
    /\ stack' = <<Call(0, 0)>>
    /\ frames' = <<>>
    /\ ops' = <<>>
    /\ run' = run + 1
    /\ UNCHANGED <<raised, mainVars>>

Next ==
    \/ Begin
    \/ Sentinel
    \/ Swap
    \/ SkipColumn
    \/ Normalize
    \/ ZeroDivisor
    \/ Eliminate
    \/ Descend
    \/ Return
    \/ Rerun

Spec == Init /\ [][Next]_vars

FairSpec == Spec /\ WF_vars(Next)

Done == ~Running

(* ---------------- the loop of main(), lines 62-78 ---------------- *)
\* the generator runs only while the for loop of line 67 waits for a frame
Pulled == consumed = Len(frames)

\* the first component of a frame, as main() keeps it
StepOf(f) == [kind |-> f.kind, rows |-> f.rows]

\* the contents of a matrix main() holds
MatrixOf(s) == IF s.kind = "none" THEN <<>> ELSE View(s)

SameObject(s, l) == s.kind = "alias" /\ l.kind = "alias"

\* step == last: None equals None only, lists are compared by contents
SameMatrix(s, l) ==
    IF s.kind = "none" \/ l.kind = "none"
    THEN s.kind = l.kind
    ELSE View(s) = View(l)

\* if step: a matrix with at least one row
Truthy(s) == s.kind # "none" /\ Len(View(s)) > 0

\* print_matrix(last, explanations, produce_latex)
print_matrix(l, f) ==
    [matrix |-> MatrixOf(l), expNone |-> f.expNone, exp |-> f.exp]

\* lines 67-78: one pass of the loop body
Consume ==
    /\ consumed < Len(frames)
    /\ LET f == frames[consumed + 1]
           step == StepOf(frames[consumed + 1])
       IN  IF skip_unchanged /\ SameMatrix(step, last)
           THEN UNCHANGED <<last, printed>>
           ELSE /\ printed' =
                     IF \/ last.kind # "none" /\ step.kind # "none"
                        \/ skip_unchanged /\ step.kind = "none"
                     THEN Append(printed, print_matrix(last, f))
                     ELSE printed
                /\ last' = IF Truthy(step) THEN step ELSE last
    /\ consumed' = consumed + 1
    /\ UNCHANGED <<input, heap, a, stack, frames, ops, run, raised,
                   skip_unchanged>>

\* line 67: the loop asks the generator for its next frame
Pull ==
    /\ Pulled
    /\ \/ Begin
       \/ Sentinel
       \/ Swap
       \/ SkipColumn
       \/ Normalize
       \/ ZeroDivisor
       \/ Eliminate
       \/ Descend
       \/ Return

MainInit == InitWith(BOOLEAN)

MainNext == Pull \/ Consume

MainSpec == MainInit /\ [][MainNext]_vars

MainDone == ~Running /\ Pulled

(* ---------------- notions used by the properties ---------------- *)
Last(q) == q[Len(q)]

MatrixFrames == {p \in 1..Len(frames) : frames[p].kind # "none"}

\* the matrix of the last matrix-carrying frame
LastMatrix == frames[CHOOSE p \in MatrixFrames : \A q \in MatrixFrames : q <= p].snap

\* the matrix without row 1 and column c
Minor(M, c) ==
    [r \in 1..(Len(M) - 1) |->
        [k \in 1..(Len(M) - 1) |-> IF k < c THEN M[r + 1][k] ELSE M[r + 1][k + 1]]]

RECURSIVE Det(_)
RECURSIVE DetSum(_, _)
\* Laplace expansion along the first row, columns c..Len(M)
DetSum(M, c) ==
    IF c > Len(M) THEN Zero
    ELSE LET term == FracMul(M[1][c], Det(Minor(M, c)))
             rest == DetSum(M, c + 1)
         IN  IF c % 2 = 1
             THEN FracSub(rest, FracSub(Zero, term))
             ELSE FracSub(rest, term)

\* the determinant of the left Len(M) x Len(M) block of M
Det(M) == IF Len(M) = 1 THEN M[1][1] ELSE DetSum(M, 1)

\* m equations in m unknowns with a regular coefficient block
HasUniqueSolution(M) == Len(M[1]) = Len(M) + 1 /\ ~IsZero(Det(M))

IdentityLeftBlock(M) ==
    \A r \in 1..Len(M) : \A c \in 1..Len(M) :
        M[r][c] = IF r = c THEN One ELSE Zero

\* C1: for every input with a unique solution the matrix of the last
\* matrix-carrying frame of a finished run is in reduced row-echelon form
\* (identity left block); the rows 1;1;3 and 2;-1;0 end as [[1,0,1],[0,1,2]].
C1_ReducedRowEchelon ==
    (Done /\ raised = "none" /\ HasUniqueSolution(input)) =>
        /\ IdentityLeftBlock(LastMatrix)
        /\ input = Unique =>
              LastMatrix = <<<<One, Zero, One>>, <<Zero, One, <<2, 1>>>>>>

\* C2: right after the elimination step of a round with pivot (i, j) every
\* row k other than i, above as well as below, has a zero in column j.
C2_ColumnCleared ==
    (Running /\ Top.pc = "desc") =>
        \A k \in 0..(m - 1) : k # Top.i => IsZero(Cell(k, Top.j))

\* C3: the sentinel is the last frame of a run; no frame follows it.
C3_SentinelLast ==
    \A p \in 1..Len(frames) : frames[p].kind = "none" => p = Len(frames)

\* C4: the matrix seen through any emitted frame, a list(a) copy or the
\* working list handed out by the except branch, stays what it was when the
\* frame was emitted, whatever the engine does afterwards.
C4_FramesKeepContents ==
    \A p \in MatrixFrames : View(frames[p]) = frames[p].snap

C4_Witness ==
    /\ \E p \in 1..Len(frames) : frames[p].kind = "alias" /\ p < Len(frames)
    /\ \E p \in 1..Len(frames) :
          /\ frames[p].kind = "copy"
          /\ frames[p].snap # Contents
          /\ \E r \in 1..m : frames[p].rows[r] = a[r]

\* C5: no ZeroDivisionError escapes gauss(): a zero divisor is caught and the
\* run ends by exhausting the frame sequence.
C5_NoErrorEscapes == raised = "none"

C5_Witness ==
    /\ Done
    /\ \E p \in 1..Len(ops) : ops[p].op = "zero"
    /\ \E p \in 1..Len(input) : \A c \in 1..Len(input[p]) : IsZero(input[p][c])

\* the lowest-index row below i with a non-zero entry in column j
FirstBelow(i, j) ==
    CHOOSE r \in (i + 1)..(m - 1) :
        /\ ~IsZero(Cell(r, j))
        /\ \A q \in (i + 1)..(r - 1) : IsZero(Cell(q, j))

Exchanged(M, p, q) ==
    [k \in 1..Len(M) |-> IF k = p THEN M[q] ELSE IF k = q THEN M[p] ELSE M[k]]

SwapDue ==
    /\ AtPivotTest
    /\ IsZero(Cell(Top.i, Top.j))
    /\ \E r \in (Top.i + 1)..(m - 1) : ~IsZero(Cell(r, Top.j))

\* C6: when a[i][j] is zero and some row below has a non-zero entry in
\* column j, row i is swapped with the lowest-index such row r and the frame
\* of the swap shows rows i and r exchanged, every other row unchanged, with
\* the explanation {i: swap(i, r)}; for the rows 0;1;5 and 1;1;8 the second
\* frame is the exchanged matrix with the explanation for (0, 1).
C6_SwapFirstNonZero ==
    /\ [][SwapDue =>
            LET i == Top.i
                r == FirstBelow(Top.i, Top.j)
                f == frames'[Len(frames')]
            IN  /\ Len(frames') = Len(frames) + 1
                /\ f.kind = "copy"
                /\ f.snap = Exchanged(Contents, i + 1, r + 1)
                /\ Contents' = f.snap
                /\ ~f.expNone
                /\ f.exp = {exp_swap(i, r)}]_vars
    /\ [](input = SwapFirst /\ run = 1 /\ Len(frames) >= 2 =>
            /\ frames[1].snap = SwapFirst
            /\ frames[2].snap = <<SwapFirst[2], SwapFirst[1]>>
            /\ frames[2].exp = {exp_swap(0, 1)})

\* a swap of rows 0 and 1 of three rows, row 2 being a candidate as well
C6_Witness ==
    /\ Running
    /\ Top.pc = "norm"
    /\ ops # <<>>
    /\ Last(ops).op = "swap"
    /\ m = 3
    /\ Top.i = 0
    /\ Last(frames).exp = {exp_swap(0, 1)}
    /\ ~IsZero(Cell(2, Top.j))
    /\ Cell(2, Top.j) # Cell(0, Top.j)

SkipDue ==
    /\ AtPivotTest
    /\ \A r \in Top.i..(m - 1) : IsZero(Cell(r, Top.j))

\* C7: when column j is zero in row i and in every row below, only the column
\* index advances: the step from (i, j) to (i, j + 1) leaves the matrix as it
\* is, and the next row normalized is row i in a later column; the input
\* [[0,1,5],[0,2,10]] keeps column 0 zero and ends as [[0,1,5],[0,0,0]].
C7_ColumnOnlyAdvance ==
    /\ [][SkipDue =>
            /\ heap' = heap
            /\ a' = a
            /\ frames' = frames
            /\ Len(stack') = Len(stack) + 1
            /\ Top'.i = Top.i
            /\ Top'.j = Top.j + 1]_vars
    /\ [](\A p \in 1..Len(ops) : \A q \in (p + 1)..Len(ops) :
            (/\ ops[p].op = "skip"
             /\ ops[q].op = "divide"
             /\ \A k \in (p + 1)..(q - 1) : ops[k].op # "divide")
            => ops[q].i = ops[p].i /\ ops[q].j > ops[p].j)
    /\ [](input = ZeroColumn /\ run = 1 =>
            /\ \A r \in 0..(m - 1) : IsZero(Cell(r, 0))
            /\ Done => Contents = <<<<Zero, One, <<5, 1>>>>, <<Zero, Zero, Zero>>>>)

\* a finished run on [[0,1,5],[0,2,10]] that skipped column 0 and then
\* normalized row 0 in column 1
C7_Witness ==
    /\ Done
    /\ run = 1
    /\ input = ZeroColumn
    /\ Len(ops) >= 2
    /\ ops[1] = [op |-> "skip", i |-> 0, j |-> 0]
    /\ ops[2] = [op |-> "divide", i |-> 0, j |-> 1]

Explanations == UNION {frames[p].exp : p \in 1..Len(frames)}

\* C8 as stated: the second run on the final matrix of a finished run has
\* the initial frame as its only matrix-carrying frame (no swap, division or
\* elimination frame).
C8_OnlyInitialFrame ==
    run >= 2 => \A p \in MatrixFrames : p = 1 /\ frames[p].snap = input

\* C8 amended: the second run never changes the matrix; every
\* matrix-carrying frame carries the matrix it started from, no row is
\* swapped, every division frame divides by 1 and every elimination frame
\* subtracts with factor 0.
C8_RerunKeepsMatrix ==
    run >= 2 =>
        /\ Contents = input
        /\ \A p \in MatrixFrames : frames[p].snap = input
        /\ \A e \in Explanations :
              /\ e.op # "swap"
              /\ e.op = "divide" => e.val = One
              /\ e.op = "minus" => e.val = Zero

\* a finished second run on a matrix with a proper fraction, which emitted
\* division and elimination frames
C8_Witness ==
    /\ run = 2
    /\ Done
    /\ \E e \in Explanations : e.op = "divide"
    /\ \E e \in Explanations : e.op = "minus"
    /\ \E r \in 1..Len(input) : \E c \in 1..Len(input[r]) : input[r][c][2] # 1

\* C9: the first frame of a run carries the unmodified input with an absent
\* explanation, it precedes every row operation, and no later frame of the
\* run has an absent explanation.
C9_InitialFrameOnce ==
    /\ frames = <<>> => Contents = input /\ ops = <<>>
    /\ frames # <<>> =>
          /\ frames[1].kind = "copy"
          /\ frames[1].expNone
          /\ frames[1].snap = input
          /\ \A p \in 2..Len(frames) : ~frames[p].expNone

\* a level reached by a column-only advance from row 0 is past line 93
C9_Witness ==
    /\ Running
    /\ Top.i = 0
    /\ Top.j > 0
    /\ Top.pc = "bound"
    /\ Len(frames) = 1

\* C10: the frame sequence is finite: a consumer that keeps pulling exhausts
\* the generator, every recursive call being made with a larger column index
\* from a level inside the matrix.
C10_Terminates ==
    /\ <>(Done /\ run = MaxRuns)
    /\ [][Running /\ Len(stack') > Len(stack) =>
            /\ Top'.j = Top.j + 1
            /\ Top'.i \in {Top.i, Top.i + 1}
            /\ Top.i < m
            /\ Top.j < n]_vars

\* a finished run whose recursion went through a column-only advance and a
\* normal descent
C10_Witness ==
    /\ Done
    /\ run = MaxRuns
    /\ \E p \in 1..Len(ops) : ops[p].op = "skip"
    /\ \E p \in 1..Len(ops) : ops[p].op = "minus"
    /\ \E p \in 1..Len(frames) : frames[p].kind = "none"

PrintedMatrices == {printed[p].matrix : p \in 1..Len(printed)}

\* C11: for both settings of --skip-unchanged the final matrix of the
\* elimination, the contents of the last matrix-carrying frame, is among the
\* matrices main() has printed when the loop ends.
C11_FinalMatrixPrinted == MainDone => LastMatrix \in PrintedMatrices

\* the loop is about to take a matrix equal to the one it holds in last
DropDue ==
    /\ skip_unchanged
    /\ consumed < Len(frames)
    /\ frames[consumed + 1].kind # "none"
    /\ last.kind # "none"
    /\ frames[consumed + 1].snap = MatrixOf(last)

\* C12: with --skip-unchanged a frame whose matrix equals the last accepted
\* matrix is dropped without printing, frames after the sentinel included,
\* and no two consecutively printed matrices are equal.
C12_NoRepeatedPrint ==
    /\ [][DropDue =>
            /\ printed' = printed
            /\ last' = last
            /\ consumed' = consumed + 1]_vars
    /\ [](skip_unchanged =>
            \A p \in 1..(Len(printed) - 1) :
                printed[p].matrix # printed[p + 1].matrix)

\* a finished loop with --skip-unchanged that printed several matrices and
\* dropped a frame that came after the sentinel
C12_Witness ==
    /\ skip_unchanged
    /\ MainDone
    /\ Len(printed) >= 3
    /\ \E p \in 1..Len(frames) : \E q \in (p + 1)..Len(frames) :
          frames[p].kind = "none" /\ frames[q].kind = "alias"

\* C13: a level that took the zero-column skip path returns after the
\* recursion at (i, j + 1) without reaching normalization: it emits no frame
\* of its own and the zero-divisor branch is never executed.
C13_SkipLevelReturns ==
    /\ \A p \in 1..Len(ops) : ops[p].op # "zero"
    /\ \A p \in 1..Len(frames) : frames[p].kind # "alias"

ZeroDivisorDue == AtTry /\ IsZero(Cell(Top.i, Top.j))

\* C14: when normalization at (i, j) meets a zero divisor no cell of the
\* matrix changes, the level emits exactly one frame carrying the matrix as
\* it was with an empty explanation map, and the level ends there: no
\* elimination and no recursion to (i + 1, j + 1) follow.
C14_ZeroDivisorEndsLevel ==
    /\ [][ZeroDivisorDue =>
            /\ heap' = heap
            /\ a' = a
            /\ Len(frames') = Len(frames) + 1
            /\ SubSeq(frames', 1, Len(frames)) = frames
            /\ frames'[Len(frames')].kind # "none"
            /\ frames'[Len(frames')].snap = Contents
            /\ frames'[Len(frames')].exp = {}
            /\ ~frames'[Len(frames')].expNone
            /\ stack' = Pop]_vars
    /\ [](\A p \in 1..Len(ops) : \A q \in (p + 1)..Len(ops) :
            ops[p].op = "zero" => ops[q].op = "zero")

\* a finished run in which two nested levels met a zero divisor after an
\* elimination round
C14_Witness ==
    /\ Done
    /\ Len(ops) >= 3
    /\ ops[Len(ops)].op = "zero"
    /\ ops[Len(ops) - 1].op = "zero"
    /\ \E p \in 1..Len(ops) : ops[p].op = "minus"

NormalizeDue == AtTry /\ ~IsZero(Cell(Top.i, Top.j))

\* C15: in a round whose pivot d = a[i][j] is non-zero the normalization
\* frame shows row i as the old row i divided cell by cell by d, d being read
\* before any cell changes (so a[i][j] is 1 in the frame), every other row
\* unchanged, and the explanation {i: divide(d)}.
C15_NormalizationFrame ==
    [][NormalizeDue =>
        LET i == Top.i
            d == Cell(Top.i, Top.j)
            old == Contents
            f == frames'[Len(frames')]
        IN  /\ Len(frames') = Len(frames) + 1
            /\ f.kind = "copy"
            /\ Len(f.snap) = Len(old)
            /\ \A r \in 1..Len(old) : r # i + 1 => f.snap[r] = old[r]
            /\ Len(f.snap[i + 1]) = Len(old[i + 1])
            /\ \A c \in 1..Len(old[i + 1]) :
                  /\ f.snap[i + 1][c] # ZeroDivisionError
                  /\ FracMul(f.snap[i + 1][c], d) = old[i + 1][c]
            /\ f.snap[i + 1][Top.j + 1] = One
            /\ Contents' = f.snap
            /\ ~f.expNone
            /\ f.exp = {exp_divide(i, d)}]_vars

\* a row was just divided by a pivot other than 1 and -1, with cells to the
\* right of the pivot and a proper fraction among them
C15_Witness ==
    /\ Running
    /\ Top.pc = "elim"
    /\ Top.j + 1 < n
    /\ \E e \in Last(frames).exp :
          e.op = "divide" /\ e.val # One /\ e.val # <<0 - 1, 1>>
    /\ \E c \in (Top.j + 2)..n : Cell(Top.i, c - 1)[2] # 1

ElimDue == Running /\ Top.pc = "elim"

\* C16: the elimination step of a round at (i, j) replaces every row k in
\* i+1..m-1 by row_k - factor_k * row_i, factor_k being a[k][j] before row k
\* changes, and emits exactly one frame after all rows, whose explanation
\* map has exactly the keys i+1..m-1, key k naming factor_k and row i.
C16_EliminationFrame ==
    [][ElimDue =>
        LET i == Top.i
            j == Top.j
            old == Contents
            f == frames'[Len(frames')]
        IN  /\ Len(frames') = Len(frames) + 1
            /\ SubSeq(frames', 1, Len(frames)) = frames
            /\ f.kind = "copy"
            /\ Len(f.snap) = Len(old)
            /\ \A r \in 1..(i + 1) : f.snap[r] = old[r]
            /\ \A r \in (i + 2)..Len(old) :
                  /\ Len(f.snap[r]) = Len(old[r])
                  /\ \A c \in 1..Len(old[r]) :
                        f.snap[r][c] =
                            FracSub(old[r][c],
                                    FracMul(old[r][j + 1], old[i + 1][c]))
            /\ Contents' = f.snap
            /\ ~f.expNone
            /\ f.exp = {exp_minus(r - 1, old[r][j + 1], i) :
                            r \in (i + 2)..Len(old)}]_vars

\* two rows were just eliminated with different factors, one of them zero
C16_Witness ==
    /\ Running
    /\ Top.pc = "desc"
    /\ Top.i = 0
    /\ m = 3
    /\ \E e \in Last(frames).exp : e.row = 1 /\ IsZero(e.val)
    /\ \E e \in Last(frames).exp : e.row = 2 /\ ~IsZero(e.val)
    /\ Last(frames).snap # frames[Len(frames) - 1].snap

Sentinels == {p \in 1..Len(frames) : frames[p].kind = "none"}

\* C17: a run emits the frame with an absent matrix exactly once: never
\* twice while it runs, and once when it is complete.
C17_OneSentinel ==
    /\ Cardinality(Sentinels) <= 1
    /\ Done => Cardinality(Sentinels) = 1

\* a complete run that made normal descents and column-only advances
C17_Witness ==
    /\ Done
    /\ \E p \in 1..Len(ops) : ops[p].op = "skip" /\ ops[p].i > 0
    /\ \E p \in 1..Len(ops) : ops[p].op = "skip" /\ ops[p].i = 0
    /\ \E p \in 1..Len(ops) : ops[p].op = "minus"
    /\ Cardinality(Sentinels) = 1

\* the column of the first non-zero entry of a row, 0 for an all-zero row
Lead(row) ==
    IF \A c \in 1..Len(row) : IsZero(row[c])
    THEN 0
    ELSE CHOOSE c \in 1..Len(row) :
            ~IsZero(row[c]) /\ \A k \in 1..(c - 1) : IsZero(row[k])

\* row-echelon form with leading ones
Echelon(M) ==
    \A r \in 1..Len(M) :
        Lead(M[r]) # 0 =>
            /\ M[r][Lead(M[r])] = One
            /\ r > 1 => Lead(M[r - 1]) # 0 /\ Lead(M[r - 1]) < Lead(M[r])
            /\ \A q \in (r + 1)..Len(M) : IsZero(M[q][Lead(M[r])])

\* C18: at the end of a run the working matrix is in row-echelon form with
\* leading ones (zero rows last, every leading 1 to the right of the one
\* above, zeros below it); on entry to every level (i, j) all entries in
\* rows >= i and columns < j are zero.
C18_RowEchelon ==
    /\ Done /\ raised = "none" => Echelon(Contents)
    /\ Running /\ Top.pc \in {"start", "bound"} =>
          \A r \in Top.i..(m - 1) : \A c \in 0..(Top.j - 1) : IsZero(Cell(r, c))

\* a finished run that changed the matrix and left a staircase with a
\* skipped column and an all-zero last row
C18_Witness ==
    /\ Done
    /\ Contents # input
    /\ m >= 2
    /\ Lead(Contents[m]) = 0
    /\ \E r \in 1..m : Lead(Contents[r]) > r

\* candidate solutions: vectors of k integers of absolute value <= MaxCand
Candidates(k) == [1..k -> {<<v, 1>> : v \in (0 - MaxCand)..MaxCand}]

\* row[1] * x[1] + ... + row[c] * x[c]
RECURSIVE Dot(_, _, _)
Dot(row, x, c) ==
    IF c = 0 THEN Zero
    ELSE FracAdd(Dot(row, x, c - 1), FracMul(row[c], x[c]))

\* x satisfies every equation of M: coefficients in columns 0..n-2, the
\* right-hand side in column n-1
Satisfies(M, x) ==
    \A r \in 1..Len(M) : Dot(M[r], x, Len(x)) = M[r][Len(M[r])]

\* C19: every row operation preserves the solution set: a candidate vector
\* satisfies the equations of the matrix of a frame exactly if it satisfies
\* the equations of the input matrix.
C19_SolutionSetPreserved ==
    (frames # <<>> /\ Last(frames).kind # "none") =>
        \A x \in Candidates(Len(input[1]) - 1) :
            Satisfies(Last(frames).snap, x) <=> Satisfies(input, x)

\* the frame of an elimination after a swap, for a system that some
\* candidates solve and others do not
C19_Witness ==
    /\ frames # <<>>
    /\ Last(frames).kind = "copy"
    /\ Last(frames).snap # input
    /\ Len(input[1]) >= 2
    /\ \E p \in 1..Len(ops) : ops[p].op = "swap"
    /\ \E e \in Last(frames).exp : e.op = "minus" /\ ~IsZero(e.val)
    /\ \E x \in Candidates(Len(input[1]) - 1) : Satisfies(input, x)
    /\ \E x \in Candidates(Len(input[1]) - 1) : ~Satisfies(input, x)
====
